---- MODULE Spec2Model ----
(***************************************************************************)
(* REPET (REpeating Pattern Extraction Technique), src/REPET_org.py.       *)
(*                                                                         *)
(* The module models the four functions of the file:                       *)
(*   repet      - the orchestrator, as a state machine over its steps;     *)
(*   beat_spec  - row-wise autocorrelation, averaged over frequencies;     *)
(*   rep_period - argmax of the beat spectrum over a lag range;            *)
(*   rep_mask   - segment-median soft mask.                                *)
(*                                                                         *)
(* Conventions.  Matrices are functions [0..Lf-1 -> [0..Lt-1 -> value]],   *)
(* indexed from 0 as in numpy.  One-dimensional arrays that the code       *)
(* slices (the beat spectrum) are sequences: element k+1 of the sequence   *)
(* is element k of the numpy array.  Magnitudes are naturals.  A median of *)
(* an even number of naturals may be a half-integer, so every value that   *)
(* comes out of np.median is stored doubled (names ending in 2).  The      *)
(* float NaN is the value NaN below.  The code runs only on interpreters   *)
(* whose numpy accepts float shapes and indices; on those, np.median of a  *)
(* column holding NaN differs between numpy releases and Python's "/" on   *)
(* two ints differs between Python 2 and 3: both are fields of the         *)
(* variable build, chosen once per run.                                    *)
(***************************************************************************)
EXTENDS Integers, Sequences, FiniteSets, TLC

VARIABLES
    pc,       \* position in the function being run
    arg,      \* the caller's arguments (x's shape, fs, per)
    per,      \* repet's local per: seconds (in ticks), then frames
    L,        \* STFT window length (also nfft)
    ovp,      \* STFT overlap
    fc,       \* high-pass cutoff, in frequency bins
    V,        \* magnitude spectrograms, one matrix per channel
    b,        \* beat spectrum
    p,        \* repeating period, in frames
    i,        \* channel index of the running loop
    RepMask,  \* per channel, the mask that multiplied X[:,:,i]
    y,        \* per channel, what row i of y holds
    calls,    \* the functions invoked so far, in order
    build,    \* the interpreter's numpy median and "/" behaviour
    err       \* the exception that ended the run, "" when none

vars == <<pc, arg, per, L, ovp, fc, V, b, p, i, RepMask, y, calls, build, err>>

----------------------------------------------------------------------------
(* Bounds of the model.                                                    *)

MaxLf == 2       \* frequency rows of an enumerated spectrogram
MaxLt == 4       \* time frames of an enumerated spectrogram
MaxVal == 2      \* largest magnitude of an enumerated spectrogram
MaxB == 2        \* largest value of an enumerated beat spectrum
MaxBLen == 5     \* longest enumerated beat spectrum
MaxP == 5        \* largest period handed to rep_mask
MaxChan == 2     \* channels of the mixture
MaxFrames == 3   \* frames and rows the front-end returns inside repet
MaxPattern == 3  \* longest repetition period of a front-end test signal
MaxTrain == 6    \* frames of an impulse-train power spectrogram

----------------------------------------------------------------------------
(* Arithmetic helpers.                                                     *)

Min(a, c) == IF a <= c THEN a ELSE c

Max(a, c) == IF a >= c THEN a ELSE c

\* np.ceil(float(n)/d) for naturals n and d >= 1
CeilDiv(n, d) == (n + d - 1) \div d

RECURSIVE Gcd(_, _)
Gcd(a, c) == IF c = 0 THEN a ELSE Gcd(c, a % c)

RECURSIVE LcmUpTo(_)
LcmUpTo(n) == IF n <= 1 THEN 1 ELSE LET l == LcmUpTo(n - 1) IN (l * n) \div Gcd(l, n)

RECURSIVE SumTo(_, _)
\* f[0] + ... + f[n-1]
SumTo(f, n) == IF n = 0 THEN 0 ELSE SumTo(f, n - 1) + f[n - 1]

Rows(A) == Cardinality(DOMAIN A)

Cols(A) == Cardinality(DOMAIN A[0])

Matrices(Lf, Lt, S) == [0..(Lf - 1) -> [0..(Lt - 1) -> S]]

----------------------------------------------------------------------------
(* rep_mask                                                                *)

\* float('nan'), the padding of the last segment
NaN == -1

\* Element k (from 0) of col sorted ascending with NaN last, as np.sort and
\* np.partition order it.
Kth(col, k) ==
    LET n == Cardinality(DOMAIN col)
        top == 1 + SumTo([j \in 0..(n - 1) |-> Max(col[j], 0)], n)
        Key(x) == IF x = NaN THEN top ELSE x
    IN  CHOOSE x \in {col[j] : j \in DOMAIN col} :
            /\ Cardinality({j \in DOMAIN col : Key(col[j]) < Key(x)}) <= k
            /\ Cardinality({j \in DOMAIN col : Key(col[j]) <= Key(x)}) > k

\* np.median(col), doubled.  mode "nan": a NaN anywhere gives NaN (numpy
\* 1.10 and later).  mode "sort": the middle of the sorted column, NaN
\* sorted last (numpy before 1.10); the mean of the two middle elements for
\* an even count, NaN if either is.
Median2(col, mode) ==
    LET n == Cardinality(DOMAIN col)
        hasNaN == \E j \in DOMAIN col : col[j] = NaN
    IN  IF hasNaN /\ mode = "nan" THEN NaN
        ELSE IF n % 2 = 1
             THEN LET m == Kth(col, (n - 1) \div 2)
                  IN  IF m = NaN THEN NaN ELSE 2 * m
             ELSE LET lo == Kth(col, n \div 2 - 1)
                      hi == Kth(col, n \div 2)
                  IN  IF lo = NaN \/ hi = NaN THEN NaN ELSE lo + hi

\* The rows of W that np.median reads for the phase slots the last segment
\* does not cover (line 177: W[0:r, ...], the NaN row included).
W2Rows(r) == 0..(r - 1)

\* One element of the mask: (W + 1e-16)/(V + 1e-16), kept as the pair of
\* doubled numerator and denominator without the 1e-16, or NaN.
Cell(w2, v) ==
    IF w2 = NaN THEN [nan |-> TRUE, num |-> 0, den |-> 0]
    ELSE [nan |-> FALSE, num |-> w2, den |-> 2 * v]

\* np.min(np.vstack([Wrow, Vrow]), axis=0) on one element: NaN propagates.
MinWV2(w2, v) == IF w2 = NaN THEN NaN ELSE Min(w2, 2 * v)

\* The repeating profile of length Lf*p (line 178), doubled: element
\* k*Lf + f is the median for row f and phase slot k.
Profile2(Vm, P, mode) ==
    LET Lf == Rows(Vm)
        Lt == Cols(Vm)
        r == CeilDiv(Lt, P)
        q == Lt - (r - 1) * P
        \* line 174: V padded with NaN to r*p frames
        Wpad(f, t) == IF t < Lt THEN Vm[f][t] ELSE NaN
        \* line 175: W.T reshaped to (r, Lf*p); row s, column c
        Wr(s, c) == Wpad(c % Lf, s * P + c \div Lf)
    IN  [c \in 0..(Lf * P - 1) |->
            IF c < Lf * q
            THEN Median2([s \in 0..(r - 1) |-> Wr(s, c)], mode)
            ELSE Median2([s \in W2Rows(r) |-> Wr(s, c)], mode)]

\* rep_mask(V, p): the (Lf by Lt) matrix of mask elements.
rep_mask(Vm, P, mode) ==
    LET Lf == Rows(Vm)
        Lt == Cols(Vm)
        W == Profile2(Vm, P, mode)
        \* lines 179-180: tiled r times, reshaped to (r*p, Lf), transposed,
        \* cut to Lt frames
        Wfull(f, t) == W[(t % P) * Lf + f]
    IN  [f \in 0..(Lf - 1) |-> [t \in 0..(Lt - 1) |->
            Cell(MinWV2(Wfull(f, t), Vm[f][t]), Vm[f][t])]]

InUnit(c) == ~c.nan /\ 0 <= c.num /\ c.num <= c.den

IsOne(c) == ~c.nan /\ c.num = c.den

----------------------------------------------------------------------------
(* beat_spec                                                               *)

\* Autocorr with the lags read one place late (ifft(Sx)[:, 1:Lt+1])
AutocorrShifted(X, f, k) ==
    LET Lt == Cols(X)
    IN  SumTo([t \in 0..(Lt - k - 2) |-> X[f][t] * X[f][t + k + 1]], Lt - k - 1)

\* Row f of the autocorrelation at lag k.  The code pads each row with Lt
\* zeros (line 130) and takes ifft(|fft|^2) (lines 131-132): the linear
\* autocorrelation, sum over t of X[f,t]*X[f,t+k] for t+k < Lt.  The model
\* computes that sum exactly; the floating-point error of the FFT is not
\* modelled.
Autocorr(X, f, k) ==
    LET Lt == Cols(X)
    IN  SumTo([t \in 0..(Lt - k - 1) |-> X[f][t] * X[f][t + k]], Lt - k)

\* NormFactor at lag k (line 133): np.arange(1,Lt+1)[::-1][k]
NormFactor(Lt, k) == Lt - k

\* beat_spec(X): element k+1 is lag k.  Every element is the code's value
\* times the positive constant Lf * LcmUpTo(Lt), which keeps the division
\* by NormFactor (line 134) and the mean over rows (line 137) integral and
\* changes no comparison between lags.
beat_spec(X) ==
    LET Lf == Rows(X)
        Lt == Cols(X)
        scale == LcmUpTo(Lt)
    IN  [k1 \in 1..Lt |->
            SumTo([f \in 0..(Lf - 1) |-> Autocorr(X, f, k1 - 1)], Lf)
                * (scale \div NormFactor(Lt, k1 - 1))]

\* np.mean(V**2, axis=2) (line 95), times the number of channels.
MeanPower(Vs) ==
    [f \in DOMAIN Vs[1] |-> [t \in DOMAIN Vs[1][f] |->
        SumTo([c \in 0..(Len(Vs) - 1) |-> Vs[c + 1][f][t] * Vs[c + 1][f][t]], Len(Vs))]]

----------------------------------------------------------------------------
(* rep_period                                                              *)

\* A slice bound k on a sequence of length n, as Python resolves it.
PyIndex(k, n) == IF k < 0 THEN Max(k + n, 0) ELSE Min(k, n)

\* PySlice that gives nothing when stop lies beyond the end
PySliceStrict(s, start, stop) ==
    LET lo == PyIndex(start, Len(s))
    IN  IF stop <= Len(s) /\ lo < stop THEN SubSeq(s, lo + 1, stop) ELSE << >>

\* s[start:stop]
PySlice(s, start, stop) ==
    LET lo == PyIndex(start, Len(s))
        hi == PyIndex(stop, Len(s))
    IN  IF lo < hi THEN SubSeq(s, lo + 1, hi) ELSE << >>

\* np.argmax(s): the first index (from 0) of the maximum
ArgMax(s) ==
    CHOOSE j \in 0..(Len(s) - 1) :
        \A k \in 0..(Len(s) - 1) :
            /\ s[k + 1] <= s[j + 1]
            /\ (k < j => s[k + 1] < s[j + 1])

\* LagOffset without the discarded lag 0 counted
LagOffsetZeroBased(r) == r[1] - 1

\* The offset added to the argmax (line 154)
LagOffset(r) == r[1]

\* rep_period(b, r), r = <<r[0], r[1]>> of the code.  np.argmax of an empty
\* slice raises ValueError.
rep_period(bs, r) ==
    LET b1 == PySlice(bs, 1, Len(bs))
        b2 == PySlice(b1, r[1] - 1, r[2])
    IN  IF b2 = << >>
        THEN [raised |-> "ValueError", value |-> 0]
        ELSE [raised |-> "", value |-> ArgMax(b2) + LagOffset(r)]

----------------------------------------------------------------------------
(* Specifications of the three functions on enumerated inputs.  A variable *)
(* the function does not touch holds its idle value.                       *)

Builds == [median : {"nan", "sort"}, div : {"floor", "true"}]

NoArg == [n |-> 0, M |-> 0, N |-> 0, fs |-> 0, per |-> << >>]

IdleRepet ==
    /\ arg = NoArg
    /\ L = 0 /\ ovp = 0 /\ fc = 0
    /\ i = 0
    /\ y = << >>
    /\ calls = << >>
    /\ err = ""

\* rep_mask on every small spectrogram and period
InitMask ==
    /\ pc = "rep_mask"
    /\ \E Lf \in 1..MaxLf, Lt \in 1..MaxLt :
           \E m \in Matrices(Lf, Lt, 0..MaxVal) : V = <<m>>
    /\ p \in 1..MaxP
    /\ build \in {bd \in Builds : bd.div = "floor"}
    /\ per = << >>
    /\ b = << >>
    /\ RepMask = << >>
    /\ IdleRepet

CallRepMask ==
    /\ pc = "rep_mask"
    /\ RepMask' = <<rep_mask(V[1], p, build.median)>>
    /\ pc' = "done"
    /\ UNCHANGED <<arg, per, L, ovp, fc, V, b, p, i, y, calls, build, err>>

NextMask == CallRepMask

SpecMask == InitMask /\ [][NextMask]_vars

\* rep_period on every small beat spectrum and every pair of bounds,
\* misconfigured ones included
InitPeriod ==
    /\ pc = "rep_period"
    /\ \E Lt \in 1..MaxBLen :
           /\ b \in [1..Lt -> 0..MaxB]
           /\ per \in [1..2 -> 0..(Lt + 1)]
    /\ p = 0
    /\ V = << >>
    /\ build = [median |-> "nan", div |-> "floor"]
    /\ RepMask = << >>
    /\ IdleRepet

\* p = rep_period(b, per) returns
RepPeriodReturns ==
    /\ pc = "rep_period"
    /\ rep_period(b, per).raised = ""
    /\ p' = rep_period(b, per).value
    /\ pc' = "done"
    /\ UNCHANGED <<arg, per, L, ovp, fc, V, b, i, RepMask, y, calls, build, err>>

\* p = rep_period(b, per) raises
RepPeriodRaises ==
    /\ pc = "rep_period"
    /\ rep_period(b, per).raised # ""
    /\ err' = rep_period(b, per).raised
    /\ pc' = "raised"
    /\ UNCHANGED <<arg, per, L, ovp, fc, V, b, p, i, RepMask, y, calls, build>>

NextPeriod == RepPeriodReturns \/ RepPeriodRaises

SpecPeriod == InitPeriod /\ [][NextPeriod]_vars

\* The magnitude spectrogram whose power is an impulse train: amplitude amp
\* at frames ph, ph + p0, ph + 2*p0, ... of every row.
ImpulseTrain(Lf, Lt, p0, ph, amp) ==
    [f \in 0..(Lf - 1) |-> [t \in 0..(Lt - 1) |->
        IF t >= ph /\ (t - ph) % p0 = 0 THEN amp ELSE 0]]

\* beat_spec then rep_period on impulse trains of known period arg.p0,
\* searched over a range that holds p0
InitBeat ==
    /\ pc = "beat_spec"
    /\ \E Lf \in 1..MaxLf, Lt \in 2..MaxTrain, amp \in 1..MaxVal :
       \E p0 \in 1..(Lt - 1) :
       \E ph \in 0..(p0 - 1), rmin \in 1..p0, rmax \in p0..(Lt - 1) :
           /\ V = <<ImpulseTrain(Lf, Lt, p0, ph, amp)>>
           /\ per = <<rmin, rmax>>
           /\ arg = [n |-> 0, M |-> 1, N |-> 0, fs |-> 0, per |-> << >>,
                     p0 |-> p0, ph |-> ph]
    /\ p = 0
    /\ b = << >>
    /\ build = [median |-> "nan", div |-> "floor"]
    /\ RepMask = << >>
    /\ L = 0 /\ ovp = 0 /\ fc = 0
    /\ i = 0
    /\ y = << >>
    /\ calls = << >>
    /\ err = ""

CallBeatSpec ==
    /\ pc = "beat_spec"
    /\ b' = beat_spec(MeanPower(V))
    /\ pc' = "rep_period"
    /\ UNCHANGED <<arg, per, L, ovp, fc, V, p, i, RepMask, y, calls, build, err>>

NextBeat == CallBeatSpec \/ RepPeriodReturns

SpecBeat == InitBeat /\ [][NextBeat]_vars

----------------------------------------------------------------------------
(* repet                                                                   *)

\* per is in seconds and takes the values 0.8, N/3, 8 and the caller's:
\* the model counts seconds in ticks of 1/TicksPerSec s.
TicksPerSec == 600

\* Line 65: the default range is [0.8, min(8, ...)]
DefaultMinTicks == 480

DefaultMaxSec == 8

\* Line 70: the analysis window is 0.04*fs = fs/WindowDen samples
WindowDen == 25

\* Line 76: the cutoff frequency of the high-pass filter, in Hz
CutoffHz == 100

\* Sampling frequencies, sample counts and period values (in ticks) that
\* the modelled callers pass
SampleRates == {50, 100}

SampleCounts == {7, 30}

PerChoices == {6, 12, 24}

\* np.shape(x)[1]/3 (line 65), in ticks: the quotient of two ints, floored
\* by Python 2 and exact in Python 3
SamplesOverThree(N, div) ==
    IF div = "floor" THEN (N \div 3) * TicksPerSec ELSE (N * TicksPerSec) \div 3

\* Line 65: np.array([0.8, np.array([8, np.shape(x)[1]/3]).min()])
DefaultPer(N, div) ==
    <<DefaultMinTicks, Min(DefaultMaxSec * TicksPerSec, SamplesOverThree(N, div))>>

RECURSIVE PowerOfTwoFrom(_, _)
PowerOfTwoFrom(w, fs) ==
    IF w * WindowDen >= fs THEN w ELSE PowerOfTwoFrom(2 * w, fs)

\* Line 70: int(2**ceil(log2(0.04*fs))), for fs >= WindowDen
WindowLength(fs) == PowerOfTwoFrom(1, fs)

\* Line 77: np.ceil(float(fc)*(nfft-1)/fs)
CutoffBin(nfft, fs) == CeilDiv(CutoffHz * (nfft - 1), fs)

\* Line 91: np.ceil((per*fs + L/ovp - 1)/ovp), per one value in ticks
ToFrames(t, fs, Lw, ov) ==
    CeilDiv(t * fs + TicksPerSec * (Lw \div ov - 1), TicksPerSec * ov)

\* f_stft is not part of the file.  Its result for a channel is drawn from
\* the test signals below: row f holds f+1 at every q-th frame and 0
\* elsewhere (a pattern that repeats every q frames).
Pattern(q, Lf, Lt) ==
    [f \in 0..(Lf - 1) |-> [t \in 0..(Lt - 1) |->
        IF t % q = 0 THEN f + 1 ELSE 0]]

FrontEnd(Lf, Lt) == {Pattern(q, Lf, Lt) : q \in 1..MaxPattern}

\* The mask element 1
One == [nan |-> FALSE, num |-> 1, den |-> 1]

\* HighPassRows of RepMask[2:fc,:] = 1
HighPassRowsFromTwo(cut, Lf) == {f \in 0..(Lf - 1) : PyIndex(2, Lf) <= f /\ f < PyIndex(cut, Lf)}

\* The rows that RepMask[1:fc,:] = 1 overwrites (line 108)
HighPassRows(cut, Lf) == {f \in 0..(Lf - 1) : PyIndex(1, Lf) <= f /\ f < PyIndex(cut, Lf)}

\* Lines 107-108: the mask of one channel after the override
HighPass(Mk, cut) ==
    [f \in DOMAIN Mk |-> [t \in DOMAIN Mk[f] |->
        IF f \in HighPassRows(cut, Rows(Mk)) THEN One ELSE Mk[f][t]]]

\* PeriodIsFixed with the two tests of lines 92 and 94 exchanged
PeriodIsFixedSwapped(pr) == Len(pr) = 2

\* Line 92: the caller fixed the period
PeriodIsFixed(pr) == Len(pr) = 1

Args ==
    [n : {2}, M : 1..MaxChan, N : SampleCounts, fs : SampleRates, per : {<< >>}]
    \cup
    [n : {3}, M : 1..MaxChan, N : SampleCounts, fs : SampleRates,
     per : [1..1 -> PerChoices] \cup [1..2 -> PerChoices]]

Init ==
    /\ pc = "args"
    /\ arg \in Args
    /\ build \in Builds
    /\ per = << >>
    /\ L = 0 /\ ovp = 0 /\ fc = 0
    /\ V = << >>
    /\ b = << >>
    /\ p = 0
    /\ i = 0
    /\ RepMask = << >>
    /\ y = << >>
    /\ calls = << >>
    /\ err = ""

\* Lines 63-67: the default range when per is not given
ResolvePer ==
    /\ pc = "args"
    /\ per' = IF arg.n < 3 THEN DefaultPer(arg.N, build.div) ELSE arg.per
    /\ pc' = "params"
    /\ UNCHANGED <<arg, L, ovp, fc, V, b, p, i, RepMask, y, calls, build, err>>

\* Lines 70-77: STFT and high-pass parameters
StftParams ==
    /\ pc = "params"
    /\ L' = WindowLength(arg.fs)
    /\ ovp' = WindowLength(arg.fs) \div 2
    /\ fc' = CutoffBin(WindowLength(arg.fs), arg.fs)
    /\ i' = 0
    /\ pc' = "stft"
    /\ UNCHANGED <<arg, per, V, b, p, RepMask, y, calls, build, err>>

\* Lines 81-88: one f_stft call; every channel has the first one's shape
CallStft ==
    /\ pc = "stft"
    /\ \E Lf \in 1..MaxFrames, Lt \in 1..MaxFrames :
           /\ V # << >> => Lf = Rows(V[1]) /\ Lt = Cols(V[1])
           /\ \E S \in FrontEnd(Lf, Lt) : V' = Append(V, S)
    /\ calls' = Append(calls, <<"f_stft", i>>)
    /\ i' = i + 1
    /\ pc' = IF i + 1 = arg.M THEN "frames" ELSE "stft"
    /\ UNCHANGED <<arg, per, L, ovp, fc, b, p, RepMask, y, build, err>>

\* Line 91: per from seconds to frames
PerToFrames ==
    /\ pc = "frames"
    /\ per' = [k \in DOMAIN per |-> ToFrames(per[k], arg.fs, L, ovp)]
    /\ pc' = "period"
    /\ UNCHANGED <<arg, L, ovp, fc, V, b, p, i, RepMask, y, calls, build, err>>

\* Lines 92-93 and 105: p = per, y = zeros
FixedPeriod ==
    /\ pc = "period"
    /\ PeriodIsFixed(per)
    /\ p' = per[1]
    /\ y' = [c \in 1..arg.M |-> "zeros"]
    /\ i' = 0
    /\ pc' = "mask"
    /\ UNCHANGED <<arg, per, L, ovp, fc, V, b, RepMask, calls, build, err>>

\* Lines 94-95: b = beat_spec(np.mean(V**2, axis=2))
CallBeatSpecInRepet ==
    /\ pc = "period"
    /\ ~PeriodIsFixed(per)
    /\ Len(per) = 2
    /\ b' = beat_spec(MeanPower(V))
    /\ calls' = Append(calls, <<"beat_spec", 0>>)
    /\ pc' = "plot"
    /\ UNCHANGED <<arg, per, L, ovp, fc, V, p, i, RepMask, y, build, err>>

\* Lines 96-101: the beat spectrum is plotted
PlotBeatSpec ==
    /\ pc = "plot"
    /\ calls' = Append(calls, <<"plot", 0>>)
    /\ pc' = "rep_period"
    /\ UNCHANGED <<arg, per, L, ovp, fc, V, b, p, i, RepMask, y, build, err>>

\* Lines 102 and 105: p = rep_period(b, per) returns, y = zeros
PeriodFound ==
    /\ pc = "rep_period"
    /\ rep_period(b, per).raised = ""
    /\ p' = rep_period(b, per).value
    /\ calls' = Append(calls, <<"rep_period", 0>>)
    /\ y' = [c \in 1..arg.M |-> "zeros"]
    /\ i' = 0
    /\ pc' = "mask"
    /\ UNCHANGED <<arg, per, L, ovp, fc, V, b, RepMask, build, err>>

\* Line 102: rep_period raises and repet ends with the exception
PeriodRaises ==
    /\ pc = "rep_period"
    /\ rep_period(b, per).raised # ""
    /\ err' = rep_period(b, per).raised
    /\ calls' = Append(calls, <<"rep_period", 0>>)
    /\ pc' = "raised"
    /\ UNCHANGED <<arg, per, L, ovp, fc, V, b, p, i, RepMask, y, build>>

\* Lines 106-111: one channel is masked, high-passed and inverted
MaskChannel ==
    /\ pc = "mask"
    /\ i < arg.M
    /\ RepMask' = Append(RepMask, HighPass(rep_mask(V[i + 1], p, build.median), fc))
    /\ calls' = calls \o << <<"rep_mask", p>>, <<"f_istft", i>> >>
    /\ y' = [y EXCEPT ![i + 1] = "background"]
    /\ i' = i + 1
    /\ pc' = IF i + 1 = arg.M THEN "return" ELSE "mask"
    /\ UNCHANGED <<arg, per, L, ovp, fc, V, b, p, build, err>>

\* Line 113: return y
Return ==
    /\ pc = "return"
    /\ pc' = "done"
    /\ UNCHANGED <<arg, per, L, ovp, fc, V, b, p, i, RepMask, y, calls, build, err>>

Next ==
    \/ ResolvePer
    \/ StftParams
    \/ CallStft
    \/ PerToFrames
    \/ FixedPeriod
    \/ CallBeatSpecInRepet
    \/ PlotBeatSpec
    \/ PeriodFound
    \/ PeriodRaises
    \/ MaskChannel
    \/ Return

Spec == Init /\ [][Next]_vars

----------------------------------------------------------------------------
(* Properties of rep_mask, under SpecMask.                                 *)

MaskCells == {<<f, t>> : f \in DOMAIN V[1], t \in DOMAIN V[1][0]}

\* C1: every element of the mask rep_mask returns is a number in [0,1],
\* for every spectrogram and every period p >= 1; none is NaN.
C1_MaskInUnitInterval ==
    pc = "done" => \A c \in MaskCells : InUnit(RepMask[1][c[1]][c[2]])

\* V[f,t] = V[f, t mod p] for every row and frame
Periodic(Vm, P) == \A f \in DOMAIN Vm : \A t \in DOMAIN Vm[f] : Vm[f][t] = Vm[f][t % P]

\* C5: when V is exactly periodic with period p, every element of
\* rep_mask(V, p) is 1, also when Lt is not a multiple of p.
C5_PeriodicGivesAllOnes ==
    pc = "done" /\ Periodic(V[1], p) =>
        \A c \in MaskCells : IsOne(RepMask[1][c[1]][c[2]])

\* The median (doubled) of the values observed at row f and phase slot k:
\* V[f, k + s*p] for the s with k + s*p < Lt.
ObservedMedian2(Vm, P, f, k, mode) ==
    LET n == CeilDiv(Cols(Vm) - k, P)
    IN  Median2([s \in 0..(n - 1) |-> Vm[f][k + s * P]], mode)

\* C10: at every row f and every phase slot k that some segment covers,
\* the repeating profile is the median of the observed values only (the
\* NaN padding of the last segment is left out), hence a number.
C10_ProfileIsMedianOfObserved ==
    pc = "done" =>
        \A f \in DOMAIN V[1] : \A k \in 0..(Min(p, Cols(V[1])) - 1) :
            LET w == Profile2(V[1], p, build.median)[k * Rows(V[1]) + f]
            IN  w # NaN /\ w = ObservedMedian2(V[1], p, f, k, build.median)

----------------------------------------------------------------------------
(* Properties of rep_period, under SpecPeriod.                             *)

\* 1 <= rmin <= rmax < Lt
BoundsValid == 1 <= per[1] /\ per[1] <= per[2] /\ per[2] < Len(b)

\* lag q is the lowest lag of lo..hi at which b is largest
FirstMaxLag(q, lo, hi) ==
    /\ lo <= q /\ q <= hi
    /\ \A k \in lo..hi : b[k + 1] <= b[q + 1] /\ (k < q => b[k + 1] < b[q + 1])

\* C2: with 1 <= rmin <= rmax < Lt, rep_period returns the lag p (b[0] is
\* lag 0) with rmin <= p <= rmax at which b is largest over rmin..rmax, the
\* lowest such lag on a tie.
C2_PeriodIsFirstMaxLag ==
    BoundsValid /\ pc # "rep_period" =>
        pc = "done" /\ FirstMaxLag(p, per[1], per[2])

\* C2's case: a valid range that starts above lag 1, whose maximum is
\* attained twice, below the value at lag 0.
C2_Witness ==
    /\ pc = "done" /\ BoundsValid
    /\ per[1] > 1 /\ p > per[1]
    /\ \E k \in (p + 1)..per[2] : b[k + 1] = b[p + 1]
    /\ b[1] > b[p + 1]

\* C6: rep_period never returns 0, the discarded lag, whatever the bounds.
C6_NeverReturnsLagZero == pc = "done" => p # 0

\* rmin < 1, rmax > Lt - 1 or rmin > rmax
BoundsInvalid == per[1] < 1 \/ per[2] > Len(b) - 1 \/ per[1] > per[2]

----------------------------------------------------------------------------
(* Properties of beat_spec followed by rep_period, under SpecBeat.         *)

----------------------------------------------------------------------------
(* Properties of repet, under Spec.                                        *)

\* C4 as stated: the mask applied to a channel is 1 in every frame of
\* every row below the cutoff bin, row 0 included.
C4_AllRowsBelowCutoffAreOne ==
    \A c \in 1..Len(RepMask) : \A f \in DOMAIN RepMask[c] :
        f < fc => \A t \in DOMAIN RepMask[c][f] : IsOne(RepMask[c][f][t])

\* C4 as amended: the mask applied to a channel is 1 in every frame of
\* every row f with 1 <= f < fc; row 0 keeps what rep_mask returned.
C4_RowsOneToCutoffAreOne ==
    \A c \in 1..Len(RepMask) : \A f \in DOMAIN RepMask[c] :
        \A t \in DOMAIN RepMask[c][f] :
            /\ (1 <= f /\ f < fc) => IsOne(RepMask[c][f][t])
            /\ f = 0 => RepMask[c][f][t] = rep_mask(V[c], p, build.median)[f][t]

\* C4's case: rep_mask returned less than 1 in row 0 and in a row of
\* 1..fc-1, and the applied mask is 1 in the latter.
C4_Witness ==
    \E c \in 1..Len(RepMask) :
        \E f \in DOMAIN RepMask[c] : \E t \in DOMAIN RepMask[c][f] :
            LET raw == rep_mask(V[c], p, build.median)
            IN  /\ 1 <= f /\ f < fc
                /\ ~IsOne(raw[f][t]) /\ IsOne(RepMask[c][f][t])
                /\ ~IsOne(raw[0][t]) /\ ~IsOne(RepMask[c][0][t])

\* C8: without a period argument the search window is, in seconds,
\* [0.8, min(8, (N/fs)/3)].  (per is in ticks: both sides of the second
\* equation are multiplied by 3*fs*TicksPerSec.)
C8_DefaultWindowIsThirdOfDuration ==
    arg.n < 3 /\ pc = "params" =>
        /\ per[1] * 10 = 8 * TicksPerSec
        /\ per[2] * 3 * arg.fs
               = Min(DefaultMaxSec * TicksPerSec * 3 * arg.fs, arg.N * TicksPerSec)

Called(fn) == {j \in 1..Len(calls) : calls[j][1] = fn}

\* C9: with a single period value, beat_spec, rep_period and the plot are
\* never invoked, every rep_mask call gets that value in frames, no
\* exception ends the run and the returned y holds every channel's
\* background; with a range, beat_spec is invoked at most once, and once
\* before rep_period, which precedes every rep_mask call.
C9_FixedPeriodBypassesEstimation ==
    /\ (arg.n = 3 /\ Len(arg.per) = 1) =>
          /\ Called("beat_spec") \cup Called("plot") \cup Called("rep_period") = {}
          /\ \A j \in Called("rep_mask") :
                 calls[j][2] = ToFrames(arg.per[1], arg.fs, L, ovp)
          /\ pc # "raised" /\ err = ""
          /\ pc = "done" =>
                 /\ Cardinality(Called("rep_mask")) = arg.M
                 /\ \A c \in 1..arg.M : y[c] = "background"
    /\ ~(arg.n = 3 /\ Len(arg.per) = 1) =>
          /\ Cardinality(Called("beat_spec")) <= 1
          /\ \A j \in Called("rep_period") : \E k \in Called("beat_spec") : k < j
          /\ \A j \in Called("rep_mask") : \E k \in Called("rep_period") : k < j
          /\ pc = "done" => Cardinality(Called("beat_spec")) = 1

\* C9's case: a two-channel run with a single period value has returned.
C9_Witness ==
    /\ pc = "done" /\ arg.n = 3 /\ Len(arg.per) = 1 /\ arg.M = 2
    /\ Cardinality(Called("rep_mask")) = 2
    /\ Called("beat_spec") = {}
    /\ p = ToFrames(arg.per[1], arg.fs, L, ovp) /\ p > 1

====
